---- MODULE Spec2Model ----
(***************************************************************************)
(* Job lifecycle of the PartField Gradio front end (gradio_app.py):        *)
(* validate -> workspace -> sweep -> stage 1 -> stage 2 -> harvest ->      *)
(* cleanup, for several request handlers running process_3d_file           *)
(* concurrently over one jobs root and one exp_results directory.          *)
(*                                                                         *)
(* Time is counted in seconds.  Strings the code only compares or returns  *)
(* are kept as literals; a text that the code searches for substrings is   *)
(* the set of the searched substrings it contains; a status message is the *)
(* sequence of its parts.                                                  *)
(***************************************************************************)
EXTENDS Integers, Sequences, FiniteSets, TLC

\* ---------------------------------------------------------------- bounds
NumJobs == 2
NumIds == 2
MaxTicks == 1
\* how many calls into the operating system may fail in one run
MaxFaults == 1

Jobs == 1..NumJobs
\* The values str(uuid.uuid4())[:8] can take (2^32 in the code).
JobIds == 1..NumIds

\* ---------------------------------------------------------- configuration
JOB_EXPIRY_HOURS == 24
SecondsPerHour == 3600
SUPPORTED_EXTENSIONS == {".obj", ".glb", ".off", ".ply"}
MaxSizeMB == 100
BytesPerMB == 1024 * 1024
ReservedStems == {"car", "complex_car"}

\* Python's None, for a path, a job id not yet drawn and a time not yet read.
None == <<>>
NoId == 0
NoTime == 0

\* timedelta(hours=expiry_hours), in seconds
ExpirySeconds == JOB_EXPIRY_HOURS * SecondsPerHour

\* The clock at the start of the run, late enough for expired directories
\* to have a non-negative mtime.
StartTime == ExpirySeconds + 1

\* Amounts by which the clock advances between two steps.
TickSteps == {ExpirySeconds + 1}

\* ------------------------------------------------------------ validate_file
\* str.lower() on the strings the uploads below use.
Lower(s) ==
    CASE s = ".OBJ" -> ".obj"
      [] s = ".PLY" -> ".ply"
      [] s = "Car" -> "car"
      [] s = "CAR" -> "car"
      [] s = "Complex_Car" -> "complex_car"
      [] OTHER -> s

\* An upload: path is "" when nothing was uploaded; exists, suffix, stem and
\* size (bytes) are what Path(path) reports.
Upload(path, exists, stem, suffix, size) ==
    [path |-> path, exists |-> exists, stem |-> stem, suffix |-> suffix, size |-> size]

\* A validate_file without the extension check of lines 83-85.
validate_file_AnyExtension(f) ==
    IF f.path = "" THEN [ok |-> FALSE, msg |-> "No file uploaded"]
    ELSE IF ~f.exists THEN [ok |-> FALSE, msg |-> "File does not exist"]
    ELSE IF f.size > MaxSizeMB * BytesPerMB
        THEN [ok |-> FALSE, msg |-> "File too large"]
    ELSE IF Lower(f.stem) \in ReservedStems
        THEN [ok |-> FALSE, msg |-> "The filename is reserved"]
    ELSE [ok |-> TRUE, msg |-> "File valid"]

\* A validate_file that looks at the size before the extension.
validate_file_SizeFirst(f) ==
    IF f.path = "" THEN [ok |-> FALSE, msg |-> "No file uploaded"]
    ELSE IF ~f.exists THEN [ok |-> FALSE, msg |-> "File does not exist"]
    ELSE IF f.size > MaxSizeMB * BytesPerMB
        THEN [ok |-> FALSE, msg |-> "File too large"]
    ELSE IF Lower(f.suffix) \notin SUPPORTED_EXTENSIONS
        THEN [ok |-> FALSE, msg |-> "Unsupported format"]
    ELSE IF Lower(f.stem) \in ReservedStems
        THEN [ok |-> FALSE, msg |-> "The filename is reserved"]
    ELSE [ok |-> TRUE, msg |-> "File valid"]

\* Lines 74-97.
validate_file(f) ==
    IF f.path = "" THEN [ok |-> FALSE, msg |-> "No file uploaded"]
    ELSE IF ~f.exists THEN [ok |-> FALSE, msg |-> "File does not exist"]
    ELSE IF Lower(f.suffix) \notin SUPPORTED_EXTENSIONS
        THEN [ok |-> FALSE, msg |-> "Unsupported format"]
    ELSE IF f.size > MaxSizeMB * BytesPerMB
        THEN [ok |-> FALSE, msg |-> "File too large"]
    ELSE IF Lower(f.stem) \in ReservedStems
        THEN [ok |-> FALSE, msg |-> "The filename is reserved"]
    ELSE [ok |-> TRUE, msg |-> "File valid"]

NoUpload == Upload("", FALSE, "", "", 0)

\* Uploads submitted to the pipeline: one that is valid and one for each
\* reason validate_file has to reject.
Uploads ==
    { Upload("mesh.obj", TRUE, "mesh", ".obj", 1000),
      Upload("notes.txt", TRUE, "notes", ".txt", 1000),
      NoUpload,
      Upload("ghost.obj", FALSE, "ghost", ".obj", 0),
      Upload("big.ply", TRUE, "big", ".ply", MaxSizeMB * BytesPerMB + 1),
      Upload("Car.OBJ", TRUE, "Car", ".OBJ", 1000) }

\* -------------------------------------------------------------- run_command
\* What a subprocess run can deliver: launched is FALSE when Popen raised,
\* rc is the exit status, out the searched substrings the captured text holds.
OOM_CUDA == "CUDA out of memory"
OOM_ERROR == "OutOfMemoryError"
Signatures == {OOM_CUDA, OOM_ERROR}

\* A run_command that reports every launched process as a success.
RunCommandIgnoresExit(launched, rc) == launched

\* run_command's first result: process.returncode == 0, or False on exception.
RunCommandSuccess(launched, rc) == launched /\ rc = 0

\* A test for the first signature alone.
IsOutOfMemoryCudaOnly(out) == OOM_CUDA \in out

\* The test of line 238 on the captured output.
IsOutOfMemory(out) == OOM_CUDA \in out \/ OOM_ERROR \in out

ExitCodes == {0, 1}

\* ------------------------------------------------------------------ statuses
StatusValidation(msg) == <<"Error:", msg>>
StatusOOM == <<"Error:", "GPU out of memory.",
               "Try reducing 'Points per face' in advanced options.">>
StatusStage1Failed == <<"Error:", "Feature extraction failed">>
StatusStage2Failed == <<"Error:", "Clustering failed">>
\* The same outcome reported as an error.
StatusNoOutputAsError == <<"Error:", "No output files generated">>
\* Line 318.
StatusNoOutput == <<"Warning:", "No output files generated">>
StatusSuccess(n, has_obj) ==
    <<"Success!", "Generated", ToString(n), "segmentation(s)">>
        \o (IF has_obj THEN <<"(with UV maps)">> ELSE <<>>)

\* The 4-tuple process_3d_file returns (NoResult: it has not returned).
Result(status, mesh_files, pca_file, log_text) ==
    [status |-> status, mesh_files |-> mesh_files, pca_file |-> pca_file,
     log |-> log_text]
NoResult == Result(<<>>, <<>>, None, <<>>)

\* --------------------------------------------------------------- file system
\* A directory <jobs_dir>/<id>: its st_mtime, whether the input file is in
\* input/, whether output/ply exists and the mesh files in output/ply.  Every
\* job directory holds input/ and output/: both are made with the directory.
NoDir == [exists |-> FALSE, mtime |-> 0, input |-> FALSE, ply |-> FALSE, files |-> {}]
OldDir(mtime) == [exists |-> TRUE, mtime |-> mtime, input |-> TRUE, ply |-> FALSE,
                  files |-> {}]

\* The jobs root as earlier runs of the server can have left it: empty; the
\* directory of id 1 one second inside the expiry window or exactly at its
\* edge; directories one second past it.
InitDirs ==
    { [i \in JobIds |-> NoDir],
      [i \in JobIds |-> IF i = 1 THEN OldDir(StartTime - ExpirySeconds + 1) ELSE NoDir],
      [i \in JobIds |-> IF i = 1 THEN OldDir(StartTime - ExpirySeconds) ELSE NoDir],
      [i \in JobIds |-> IF i <= 2 THEN OldDir(StartTime - ExpirySeconds - 1) ELSE NoDir] }

\* A file in output/ply: stem is path.stem.split('_'), ext is path.suffix.
OutFile(stem, ext) == [stem |-> stem, ext |-> ext]

\* The directory exp_results/job_<id> that partfield_inference.py writes,
\* holding its feat_pca file, with its st_mtime.
NoFeatures == [exists |-> FALSE, mtime |-> 0]
Features(mtime) == [exists |-> TRUE, mtime |-> mtime]

\* Mesh files run_part_clustering.py writes: {uid}_{view_id}_{num_clusters}.ext
MeshFile(uid, view, count, ext) == OutFile(<<uid, view, count>>, ext)

\* What stage 2 can leave in output/: no ply directory, an empty one, one
\* with no mesh file in it, mesh files.
Stage2Outputs ==
    { [ply |-> FALSE, files |-> {}],
      [ply |-> TRUE, files |-> {}],
      [ply |-> TRUE, files |-> {OutFile(<<"clustering">>, ".log")}],
      [ply |-> TRUE, files |-> {MeshFile("mesh", "0", "2", ".ply"),
                                MeshFile("mesh", "0", "3", ".obj")}] }

VARIABLES
    now,          \* the wall clock, seconds
    ticks,        \* how often the clock advanced
    faults,       \* how many operating-system calls failed
    dirs,         \* JobIds -> the directory <jobs_dir>/<id>
    features,     \* JobIds -> exp_results/job_<id> with its feat_pca file, and its mtime
    pc,           \* Jobs -> position of the handler in process_3d_file
    file,         \* Jobs -> the upload submitted
    job_id,       \* Jobs -> the id drawn at line 174, or NoId
    cutoff,       \* Jobs -> cutoff of the job's cleanup_old_jobs pass
    listing,      \* Jobs -> entries of jobs_dir.iterdir() not yet visited
    removed,      \* Jobs -> cleanup_old_jobs' counter
    stage1,       \* Jobs -> "none" | "running" | "ok" | "failed" | "nolaunch"
    stage2,       \* Jobs -> the same for the clustering subprocess
    inference_output, \* Jobs -> the searched substrings in stage 1's captured output
    pca_file,     \* Jobs -> path found at lines 254-257, or None
    mesh_files,   \* Jobs -> the harvested list
    mesh_list,    \* Jobs -> history: the list of line 305, as globbed
    log_output,   \* Jobs -> the list log() appends to
    ret,          \* Jobs -> the tuple returned, or NoResult
    steps,        \* Jobs -> history: the steps the job performed, in order
    sweeps        \* Jobs -> history: when the job's pass started and the last
                  \*         directory it examined

vars == <<now, ticks, faults, dirs, features, pc, file, job_id, cutoff, listing, removed,
          stage1, stage2, inference_output, pca_file, mesh_files, mesh_list,
          log_output, ret, steps, sweeps>>

fsVars == <<dirs, features>>
envVars == <<now, ticks, faults>>

\* --------------------------------------------------------- cleanup_old_jobs
\* cutoff = datetime.now() - timedelta(hours=expiry_hours)
Cutoff(t, expiry_hours) == t - expiry_hours * SecondsPerHour

\* What a turn of the loop found: the directory's mtime, the call that
\* raised and whether the directory is there afterwards (NoVisit: the entry
\* was no directory any more).
NoVisit == [mtime |-> 0, err |-> "skipped", after |-> FALSE]

\* A comparison that also takes the directory exactly at the cutoff.
IsExpiredInclusive(mtime, cut) == mtime <= cut

\* if mtime < cutoff
IsExpired(mtime, cut) == mtime < cut

\* An iteration that yields the first entry of the jobs root only.
ListingFirstOnly(d) ==
    {i \in JobIds : d[i].exists /\ \A k \in JobIds : d[k].exists => i <= k}

\* for job_dir in jobs_dir.iterdir(): the entries of the jobs root.
Listing(d) == {i \in JobIds : d[i].exists}

\* A counter that counts the directory before rmtree is called.
RemovedCountAttempts(count, expired, gone) == IF expired THEN count + 1 ELSE count

\* Lines 54-56: removed += 1 follows shutil.rmtree, so it is skipped when
\* rmtree (or stat) raises.
RemovedCount(count, expired, gone) == IF gone THEN count + 1 ELSE count

\* ------------------------------------------------------------------ harvest
\* int(s) for the last fields of the file names above; anything else raises.
IntLiterals == {"2", "3", "5", "10"}
IntOf(s) == CASE s = "2" -> 2 [] s = "3" -> 3 [] s = "5" -> 5 [] s = "10" -> 10

\* get_cluster_count: int(path.stem.split('_')[-1]), 0 when that raises.
get_cluster_count(f) ==
    LET last == f.stem[Len(f.stem)] IN
    IF last \in IntLiterals THEN IntOf(last) ELSE 0

\* The enumerations of a finite set, each a possible order of a glob().
Enumerations(S) ==
    { s \in [1..Cardinality(S) -> S] : \A i, k \in 1..Cardinality(S) : i # k => s[i] # s[k] }

\* An insertion that puts the new element before the elements of equal key.
RECURSIVE InsertBeforeEqual(_, _)
InsertBeforeEqual(sorted, f) ==
    IF sorted = <<>> THEN <<f>>
    ELSE IF get_cluster_count(sorted[Len(sorted)]) < get_cluster_count(f)
        THEN Append(sorted, f)
        ELSE Append(InsertBeforeEqual(SubSeq(sorted, 1, Len(sorted) - 1), f),
                    sorted[Len(sorted)])

\* list.sort(key=...): stable, ascending.
RECURSIVE InsertByKey(_, _)
InsertByKey(sorted, f) ==
    IF sorted = <<>> THEN <<f>>
    ELSE IF get_cluster_count(sorted[Len(sorted)]) <= get_cluster_count(f)
        THEN Append(sorted, f)
        ELSE Append(InsertByKey(SubSeq(sorted, 1, Len(sorted) - 1), f), sorted[Len(sorted)])

RECURSIVE SortByCount(_)
SortByCount(list) ==
    IF list = <<>> THEN <<>>
    ELSE InsertByKey(SortByCount(SubSeq(list, 1, Len(list) - 1)), list[Len(list)])

\* ---------------------------------------------------- process_3d_file order
\* A process_3d_file that sweeps before it makes the workspace.
AfterSweepFirst(step) ==
    CASE step = "validate" -> "sweep"
      [] step = "sweep" -> "mkdir"
      [] step = "mkdir" -> "copy"
      [] step = "copy" -> "stage1"
      [] step = "stage1" -> "stage2"
      [] step = "stage2" -> "harvest"
      [] step = "harvest" -> "cleanup"
      [] step = "cleanup" -> "returned"

\* A process_3d_file that never sweeps.
AfterSkipsSweep(step) ==
    CASE step = "validate" -> "mkdir"
      [] step = "mkdir" -> "copy"
      [] step = "copy" -> "stage1"
      [] step = "sweep" -> "stage1"
      [] step = "stage1" -> "stage2"
      [] step = "stage2" -> "harvest"
      [] step = "harvest" -> "cleanup"
      [] step = "cleanup" -> "returned"

\* The statement order of process_3d_file: the step that follows each step
\* when the step neither returns nor raises.
After(step) ==
    CASE step = "validate" -> "mkdir"
      [] step = "mkdir" -> "copy"
      [] step = "copy" -> "sweep"
      [] step = "sweep" -> "stage1"
      [] step = "stage1" -> "stage2"
      [] step = "stage2" -> "harvest"
      [] step = "harvest" -> "cleanup"
      [] step = "cleanup" -> "returned"

Terminated(j) == pc[j] \in {"returned", "raised"}

\* log(msg): append to log_output; the text returned is the joined list.
Logged(j, msg) == Append(log_output[j], msg)

\* The job performed a step (history).
Did(j, step) == Append(steps[j], step)

\* return (status, mesh_files, pca_file, log text)
Return(j, status, files, pca, log_text, step) ==
    /\ ret' = [ret EXCEPT ![j] = Result(status, files, pca, log_text)]
    /\ log_output' = [log_output EXCEPT ![j] = log_text]
    /\ steps' = [steps EXCEPT ![j] = Did(j, step)]
    /\ pc' = [pc EXCEPT ![j] = "returned"]

\* An exception leaves process_3d_file.
Raise(j, step) ==
    /\ pc' = [pc EXCEPT ![j] = "raised"]
    /\ steps' = [steps EXCEPT ![j] = Did(j, step)]
    /\ UNCHANGED <<ret, log_output>>

\* Fall through to the next statement.
Continue(j, step, msg) ==
    /\ pc' = [pc EXCEPT ![j] = After(step)]
    /\ steps' = [steps EXCEPT ![j] = Did(j, step)]
    /\ log_output' = [log_output EXCEPT ![j] = Logged(j, msg)]
    /\ UNCHANGED ret

Init ==
    /\ now = StartTime
    /\ ticks = 0
    /\ faults = 0
    /\ dirs \in InitDirs
    /\ features = [i \in JobIds |-> NoFeatures]
    /\ pc = [j \in Jobs |-> "validate"]
    /\ file = [j \in Jobs |-> NoUpload]
    /\ job_id = [j \in Jobs |-> NoId]
    /\ cutoff = [j \in Jobs |-> NoTime]
    /\ listing = [j \in Jobs |-> {}]
    /\ removed = [j \in Jobs |-> 0]
    /\ stage1 = [j \in Jobs |-> "none"]
    /\ stage2 = [j \in Jobs |-> "none"]
    /\ inference_output = [j \in Jobs |-> {}]
    /\ pca_file = [j \in Jobs |-> None]
    /\ mesh_files = [j \in Jobs |-> <<>>]
    /\ mesh_list = [j \in Jobs |-> <<>>]
    /\ log_output = [j \in Jobs |-> <<>>]
    /\ ret = [j \in Jobs |-> NoResult]
    /\ steps = [j \in Jobs |-> <<>>]
    /\ sweeps = [j \in Jobs |-> [started |-> NoTime, last |-> NoVisit]]

\* An operating-system call succeeds (ok) or fails, within the fault budget.
Env(ok) ==
    IF ok THEN faults' = faults
    ELSE faults < MaxFaults /\ faults' = faults + 1

\* The clock advances.
Tick(d) ==
    /\ ticks < MaxTicks
    /\ now' = now + d
    /\ ticks' = ticks + 1
    /\ UNCHANGED <<faults, dirs, features, pc, file, job_id, cutoff, listing, removed,
                   stage1, stage2, inference_output, pca_file, mesh_files, mesh_list,
                   log_output, ret, steps, sweeps>>

\* Lines 166-171: validate the upload.
Validate(j, f) ==
    /\ pc[j] = "validate"
    /\ file' = [file EXCEPT ![j] = f]
    /\ LET v == validate_file(f) IN
         IF ~v.ok
         THEN Return(j, StatusValidation(v.msg), <<>>, None,
                     Logged(j, "Validation failed"), "validate")
         ELSE Continue(j, "validate", "File validated successfully")
    /\ UNCHANGED <<envVars, fsVars, job_id, cutoff, listing, removed, stage1, stage2,
                   inference_output, pca_file, mesh_files, mesh_list, sweeps>>

\* input_dir.mkdir(parents=True, exist_ok=True) and the same for output_dir:
\* a directory that is there already is left as it is, mtime included.
Mkdirs(d, t) ==
    IF d.exists THEN d
    ELSE [exists |-> TRUE, mtime |-> t, input |-> FALSE, ply |-> FALSE, files |-> {}]

\* Lines 173-183: draw the job id and make the job's directories.
CreateWorkspace(j, id, ok) ==
    /\ pc[j] = "mkdir"
    /\ Env(ok)
    /\ job_id' = [job_id EXCEPT ![j] = id]
    /\ IF ok
       THEN /\ dirs' = [dirs EXCEPT ![id] = Mkdirs(dirs[id], now)]
            /\ Continue(j, "mkdir", "Created job directory")
       ELSE /\ Raise(j, "mkdir")
            /\ UNCHANGED dirs
    /\ UNCHANGED <<now, ticks, features, file, cutoff, listing, removed, stage1, stage2,
                   inference_output, pca_file, mesh_files, mesh_list, sweeps>>

\* Lines 185-189: shutil.copy2 into input/, which raises when it fails or
\* when the directory is gone.
CopyInput(j, ok) ==
    /\ pc[j] = "copy"
    /\ Env(ok)
    /\ IF ok /\ dirs[job_id[j]].exists
       THEN /\ dirs' = [dirs EXCEPT ![job_id[j]].input = TRUE]
            /\ Continue(j, "copy", "Copied input file")
       ELSE /\ Raise(j, "copy")
            /\ UNCHANGED dirs
    /\ UNCHANGED <<now, ticks, features, file, job_id, cutoff, listing, removed, stage1,
                   stage2, inference_output, pca_file, mesh_files, mesh_list, sweeps>>

\* Lines 60, 193-200: the pass is over once no entry is left; it returns its
\* count, the count is logged if positive and GPU memory is cleared.
SweepDone(j, left, count) ==
    IF left = {}
    THEN /\ pc' = [pc EXCEPT ![j] = After("sweep")]
         /\ log_output' = [log_output EXCEPT ![j] =
                (IF count > 0 THEN Logged(j, "Cleaned up old job(s)") ELSE log_output[j])
                    \o <<"GPU memory cleared">>]
    ELSE /\ pc' = [pc EXCEPT ![j] = "sweeping"]
         /\ UNCHANGED log_output

\* Lines 44-50: cleanup_old_jobs fixes its cutoff and lists the jobs root
\* (which exists: line 180 made it).
SweepBegin(j) ==
    /\ pc[j] = "sweep"
    /\ cutoff' = [cutoff EXCEPT ![j] = Cutoff(now, JOB_EXPIRY_HOURS)]
    /\ listing' = [listing EXCEPT ![j] = Listing(dirs)]
    /\ removed' = [removed EXCEPT ![j] = 0]
    /\ sweeps' = [sweeps EXCEPT ![j] = [started |-> now, last |-> NoVisit]]
    /\ steps' = [steps EXCEPT ![j] = Did(j, "sweep")]
    /\ SweepDone(j, listing'[j], 0)
    /\ UNCHANGED <<envVars, fsVars, file, job_id, stage1, stage2, inference_output,
                   pca_file, mesh_files, mesh_list, ret>>

\* Lines 50-58: one turn of the loop, over entry d.  err is the call that
\* raises in this turn, if any; the except clause swallows it.
SweepVisit(j, d, err) ==
    /\ pc[j] = "sweeping"
    /\ d \in listing[j]
    /\ Env(err = "none")
    /\ listing' = [listing EXCEPT ![j] = @ \ {d}]
    /\ LET dir == dirs[d]
           expired == dir.exists /\ err # "stat" /\ IsExpired(dir.mtime, cutoff[j])
           gone == expired /\ err # "rmtree"
       IN  /\ err = "rmtree" => expired
           /\ err = "stat" => dir.exists
           /\ dirs' = IF gone THEN [dirs EXCEPT ![d] = NoDir] ELSE dirs
           /\ removed' = [removed EXCEPT ![j] = RemovedCount(@, expired, gone)]
           /\ sweeps' = [sweeps EXCEPT ![j].last =
                            IF dir.exists
                            THEN [mtime |-> dir.mtime, err |-> err, after |-> dirs'[d].exists]
                            ELSE NoVisit]
    /\ SweepDone(j, listing'[j], removed'[j])
    /\ UNCHANGED <<now, ticks, features, file, job_id, cutoff, stage1, stage2,
                   inference_output, pca_file, mesh_files, mesh_list, ret, steps>>

\* The path of exp_results/job_<id>/feat_pca_*.ply
PcaPath(id) == <<"exp_results", id, "feat_pca">>

\* The path of <jobs_dir>/<id>/output/ply/<file>
MeshPath(id, f) == <<"jobs", id, f>>

\* Lines 236-250: what process_3d_file does with run_command's result for
\* stage 1.
AfterStage1(j, success, out) ==
    IF ~success
    THEN IF IsOutOfMemory(out)
         THEN Return(j, StatusOOM, <<>>, None,
                     Logged(j, "Feature extraction failed: GPU out of memory"), "stage1")
         ELSE Return(j, StatusStage1Failed, <<>>, None,
                     Logged(j, "Feature extraction failed"), "stage1")
    ELSE Continue(j, "stage1", "Feature extraction completed")

\* Lines 204-234, 103-110: the feature-extraction subprocess is started, or
\* Popen raises and run_command returns (False, "Command failed: ...").
SpawnStage1(j, launched) ==
    /\ pc[j] = "stage1"
    /\ Env(launched)
    /\ IF launched
       THEN /\ stage1' = [stage1 EXCEPT ![j] = "running"]
            /\ pc' = [pc EXCEPT ![j] = "stage1_wait"]
            /\ UNCHANGED <<ret, steps, log_output>>
       ELSE /\ stage1' = [stage1 EXCEPT ![j] = "nolaunch"]
            /\ AfterStage1(j, RunCommandSuccess(FALSE, 1), {})
    /\ UNCHANGED <<now, ticks, fsVars, file, job_id, cutoff, listing, removed, stage2,
                   inference_output, pca_file, mesh_files, mesh_list, sweeps>>

\* Lines 112-121, 236-251: the subprocess exits with status rc, its output
\* holding the substrings out.  A run that exits 0 has written the features
\* directory with its feat_pca file; one that fails has written nothing.
Stage1Exit(j, rc, out) ==
    /\ pc[j] = "stage1_wait"
    /\ rc = 0 => out = {}
    /\ stage1' = [stage1 EXCEPT ![j] = IF rc = 0 THEN "ok" ELSE "failed"]
    /\ features' = IF rc = 0 THEN [features EXCEPT ![job_id[j]] = Features(now)] ELSE features
    /\ inference_output' = [inference_output EXCEPT ![j] = out]
    /\ AfterStage1(j, RunCommandSuccess(TRUE, rc), out)
    /\ UNCHANGED <<envVars, dirs, file, job_id, cutoff, listing, removed, stage2,
                   pca_file, mesh_files, mesh_list, sweeps>>

\* A process_3d_file that goes on after a failed stage 2.
AfterStage2NeverReturns(j, success, pca) == Continue(j, "stage2", "Clustering completed")

\* Lines 285-293: what process_3d_file does with run_command's result for
\* stage 2.
AfterStage2(j, success, pca) ==
    IF ~success
    THEN Return(j, StatusStage2Failed, <<>>, pca, Logged(j, "Clustering failed"), "stage2")
    ELSE Continue(j, "stage2", "Clustering completed")

\* Lines 253-283: look for the PCA file, then start the clustering
\* subprocess (or Popen raises).
SpawnStage2(j, launched) ==
    /\ pc[j] = "stage2"
    /\ Env(launched)
    /\ LET pca == IF features[job_id[j]].exists THEN PcaPath(job_id[j]) ELSE None IN
        /\ pca_file' = [pca_file EXCEPT ![j] = pca]
        /\ IF launched
           THEN /\ stage2' = [stage2 EXCEPT ![j] = "running"]
                /\ pc' = [pc EXCEPT ![j] = "stage2_wait"]
                /\ UNCHANGED <<ret, steps, log_output>>
           ELSE /\ stage2' = [stage2 EXCEPT ![j] = "nolaunch"]
                /\ AfterStage2(j, RunCommandSuccess(FALSE, 1), pca)
    /\ UNCHANGED <<now, ticks, fsVars, file, job_id, cutoff, listing, removed, stage1,
                   inference_output, mesh_files, mesh_list, sweeps>>

\* Lines 283-293: the clustering subprocess exits with status rc, having
\* left o in the job's output/ (nothing when the directory is gone or when
\* it fails).
Stage2Exit(j, rc, o) ==
    /\ pc[j] = "stage2_wait"
    /\ (rc # 0 \/ ~dirs[job_id[j]].exists) => ~o.ply
    /\ stage2' = [stage2 EXCEPT ![j] = IF rc = 0 THEN "ok" ELSE "failed"]
    /\ dirs' = IF o.ply
               THEN [dirs EXCEPT ![job_id[j]].ply = TRUE,
                                 ![job_id[j]].files = @ \cup o.files]
               ELSE dirs
    /\ AfterStage2(j, RunCommandSuccess(TRUE, rc), pca_file[j])
    /\ UNCHANGED <<envVars, features, file, job_id, cutoff, listing, removed, stage1,
                   inference_output, pca_file, mesh_files, mesh_list, sweeps>>

\* Lines 298-315: the harvested list, given the orders in which the two
\* glob() calls deliver the files.
Harvested(plys, objs) == SortByCount(plys \o objs)

\* ply_dir.glob("*" + ext): the files of output/ply with this suffix; line
\* 302 skips the calls when the directory is not there.
Glob(dir, ext) == IF dir.exists /\ dir.ply THEN {f \in dir.files : f.ext = ext} ELSE {}

\* <jobs_dir>/<job_id> of job j.
JobDir(j) == IF job_id[j] \in JobIds THEN dirs[job_id[j]] ELSE NoDir

\* Lines 295-322: collect the mesh files; none is a warning.
Harvest(j, plys, objs) ==
    /\ pc[j] = "harvest"
    /\ plys \in Enumerations(Glob(JobDir(j), ".ply"))
    /\ objs \in Enumerations(Glob(JobDir(j), ".obj"))
    /\ LET found == Harvested(plys, objs) IN
        /\ mesh_files' = [mesh_files EXCEPT ![j] = found]
        /\ mesh_list' = [mesh_list EXCEPT ![j] = plys \o objs]
        /\ IF found = <<>>
           THEN Return(j, StatusNoOutput, <<>>, pca_file[j],
                       Logged(j, "Processing completed but no mesh files were generated"),
                       "harvest")
           ELSE /\ pc' = [pc EXCEPT ![j] = After("harvest")]
                /\ steps' = [steps EXCEPT ![j] = Did(j, "harvest")]
                /\ UNCHANGED <<ret, log_output>>
    /\ UNCHANGED <<envVars, fsVars, file, job_id, cutoff, listing, removed, stage1,
                   stage2, inference_output, pca_file, sweeps>>

\* Lines 295-322 with the orders the two glob() calls can deliver.
Collect(j) ==
    \E plys \in Enumerations(Glob(JobDir(j), ".ply")),
       objs \in Enumerations(Glob(JobDir(j), ".obj")) : Harvest(j, plys, objs)

\* Lines 324-343: remove the features directory if it is there (rmtree with
\* ignore_errors: rm_ok is FALSE when it fails silently) and return success.
Cleanup(j, rm_ok) ==
    /\ pc[j] = "cleanup"
    /\ Env(rm_ok)
    /\ ~rm_ok => features[job_id[j]].exists
    /\ features' = IF features[job_id[j]].exists /\ rm_ok
                   THEN [features EXCEPT ![job_id[j]] = NoFeatures]
                   ELSE features
    /\ LET has_obj == \E i \in 1..Len(mesh_files[j]) : mesh_files[j][i].ext = ".obj" IN
         Return(j, StatusSuccess(Len(mesh_files[j]), has_obj),
                [i \in 1..Len(mesh_files[j]) |-> MeshPath(job_id[j], mesh_files[j][i])],
                pca_file[j], Logged(j, "Generated segmentation result(s)"), "cleanup")
    /\ UNCHANGED <<now, ticks, dirs, file, job_id, cutoff, listing, removed, stage1,
                   stage2, inference_output, pca_file, mesh_files, mesh_list, sweeps>>

Next ==
    \/ \E d \in TickSteps : Tick(d)
    \/ \E j \in Jobs, f \in Uploads : Validate(j, f)
    \/ \E j \in Jobs, id \in JobIds, ok \in BOOLEAN : CreateWorkspace(j, id, ok)
    \/ \E j \in Jobs, ok \in BOOLEAN : CopyInput(j, ok)
    \/ \E j \in Jobs : SweepBegin(j)
    \/ \E j \in Jobs, d \in JobIds, err \in {"none", "stat", "rmtree"} : SweepVisit(j, d, err)
    \/ \E j \in Jobs, launched \in BOOLEAN : SpawnStage1(j, launched)
    \/ \E j \in Jobs, rc \in ExitCodes, out \in SUBSET Signatures : Stage1Exit(j, rc, out)
    \/ \E j \in Jobs, launched \in BOOLEAN : SpawnStage2(j, launched)
    \/ \E j \in Jobs, rc \in ExitCodes, o \in Stage2Outputs : Stage2Exit(j, rc, o)
    \/ \E j \in Jobs : Collect(j)
    \/ \E j \in Jobs, rm_ok \in BOOLEAN : Cleanup(j, rm_ok)

Spec == Init /\ [][Next]_vars

\* ------------------------------------------------------------------ claims
Range(seq) == {seq[i] : i \in 1..Len(seq)}
Count(seq, x) == Cardinality({i \in 1..Len(seq) : seq[i] = x})
Stage1Failed(j) == stage1[j] \in {"failed", "nolaunch"}
Stage2Failed(j) == stage2[j] \in {"failed", "nolaunch"}

\* C1: the clustering subprocess is spawned (or its launch attempted) only
\* when the feature-extraction subprocess has exited with status 0: never
\* while it runs, never after a nonzero exit or a failed launch.
C1_Stage2OnlyAfterStage1Ok ==
    \A j \in Jobs : stage2[j] # "none" => stage1[j] = "ok"

C1_Witness ==
    \E j \in Jobs : stage2[j] = "running" /\ stage1[j] = "ok"

\* C2: a failed stage 1 is followed by no stage 2, no harvest and no
\* cleanup; a failed stage 2 by no harvest and no cleanup; either way the
\* job returns at once a status beginning with "Error", no artifacts and the
\* log accumulated so far, ending with the failure.
C2_FailureShortCircuits ==
    \A j \in Jobs :
        /\ Stage1Failed(j) =>
              stage2[j] = "none" /\ Range(steps[j]) \cap {"stage2", "harvest", "cleanup"} = {}
        /\ Stage2Failed(j) => Range(steps[j]) \cap {"harvest", "cleanup"} = {}
        /\ Stage1Failed(j) \/ Stage2Failed(j) =>
              /\ pc[j] = "returned"
              /\ Head(ret[j].status) = "Error:"
              /\ ret[j].mesh_files = <<>>
              /\ ret[j].log = log_output[j]
              /\ Head(ret[j].log) = "File validated successfully"
              /\ ret[j].log[Len(ret[j].log)] \in
                    {"Feature extraction failed", "Clustering failed",
                     "Feature extraction failed: GPU out of memory"}

C2_Witness ==
    \E j, k \in Jobs : Stage1Failed(j) /\ Stage2Failed(k) /\ pc[j] = "returned"
                       /\ pc[k] = "returned"

\* C3: a job that returns success has performed validate, directory
\* creation, input copy, sweep, stage 1, stage 2, harvest and cleanup, each
\* exactly once and in this order.
C3_HappyPathOrder ==
    \A j \in Jobs :
        pc[j] = "returned" /\ Head(ret[j].status) = "Success!" =>
            steps[j] = <<"validate", "mkdir", "copy", "sweep", "stage1", "stage2",
                         "harvest", "cleanup">>

C3_Witness ==
    \E j \in Jobs : pc[j] = "returned" /\ Head(ret[j].status) = "Success!"

\* The job has made its directories and is still running.
HasWorkspace(j) ==
    pc[j] \in {"copy", "sweep", "sweeping", "stage1", "stage1_wait", "stage2",
               "stage2_wait", "harvest", "cleanup"}

\* The job's directories and input copy were made without error.
WorkspaceDone(j) == Len(steps[j]) >= 3 /\ steps[j][3] = "copy" /\ pc[j] # "raised"

\* C4 (as claimed): the sweep is invoked exactly once per incoming job, and
\* before the job's directories are created.
C4_SweepOnceBeforeWorkspace ==
    \A j \in Jobs :
        /\ Terminated(j) => Count(steps[j], "sweep") = 1
        /\ \A i \in 1..Len(steps[j]) :
              steps[j][i] = "mkdir" => \E k \in 1..(i - 1) : steps[j][k] = "sweep"

\* C4 (amended): the sweep is invoked exactly once in every job whose upload
\* passes validation and whose workspace is made without error, never in
\* another job, and the invocation follows the creation of the directories
\* and the input copy and precedes stage 1.
C4_SweepOnceAfterWorkspace ==
    \A j \in Jobs :
        /\ Count(steps[j], "sweep") <= 1
        /\ "sweep" \in Range(steps[j]) =>
              SubSeq(steps[j], 1, 4) = <<"validate", "mkdir", "copy", "sweep">>
        /\ (WorkspaceDone(j) /\ pc[j] # "sweep") => Count(steps[j], "sweep") = 1
        /\ (Terminated(j) /\ ~WorkspaceDone(j)) => Count(steps[j], "sweep") = 0
        /\ stage1[j] # "none" => "sweep" \in Range(steps[j])

C4_Witness ==
    \E j, k \in Jobs :
        /\ Terminated(j) /\ Count(steps[j], "sweep") = 1
        /\ Terminated(k) /\ Count(steps[k], "sweep") = 0

\* C5: two jobs that hold a workspace at the same time never have the same
\* job id (the same workspace_root).
C5_DistinctWorkspaces ==
    \A j, k \in Jobs :
        j # k /\ HasWorkspace(j) /\ HasWorkspace(k) => job_id[j] # job_id[k]

\* C6: every submission ends with process_3d_file returning its 4-tuple,
\* also when directory creation or the input copy fails, and a workspace
\* failure is followed by no subprocess.
C6_AlwaysReturnsTuple ==
    \A j \in Jobs :
        /\ Terminated(j) => pc[j] = "returned" /\ ret[j] # NoResult
        /\ (Terminated(j) /\ ~WorkspaceDone(j)) => stage1[j] = "none" /\ stage2[j] = "none"

HasPart(status, part) == \E i \in 1..Len(status) : status[i] = part

\* C7 (as claimed): a failed stage 1 whose output holds "CUDA out of memory"
\* returns the GPU-out-of-memory status with its guidance and no artifacts;
\* a failed stage 1 whose output does not hold it returns the generic status.
C7_CudaSignatureOnly ==
    \A j \in Jobs :
        Stage1Failed(j) /\ pc[j] = "returned" =>
            IF OOM_CUDA \in inference_output[j]
            THEN /\ HasPart(ret[j].status, "GPU out of memory.")
                 /\ HasPart(ret[j].status, "Try reducing 'Points per face' in advanced options.")
                 /\ ret[j].mesh_files = <<>>
            ELSE ret[j].status = <<"Error:", "Feature extraction failed">>

\* C7 (amended): the out-of-memory signature is "CUDA out of memory" or
\* "OutOfMemoryError"; a failed stage 1 whose output holds either returns
\* the GPU-out-of-memory status with its guidance and no artifacts, one whose
\* output holds neither returns the generic status.
C7_EitherSignature ==
    \A j \in Jobs :
        Stage1Failed(j) /\ pc[j] = "returned" =>
            IF inference_output[j] \cap {"CUDA out of memory", "OutOfMemoryError"} # {}
            THEN /\ HasPart(ret[j].status, "GPU out of memory.")
                 /\ HasPart(ret[j].status, "Try reducing 'Points per face' in advanced options.")
                 /\ ret[j].mesh_files = <<>>
            ELSE ret[j].status = <<"Error:", "Feature extraction failed">>

C7_Witness ==
    \E j, k \in Jobs :
        /\ stage1[j] = "failed" /\ inference_output[j] = {"OutOfMemoryError"}
        /\ HasPart(ret[j].status, "GPU out of memory.")
        /\ stage1[k] = "failed" /\ inference_output[k] = {}
        /\ ret[k].status = <<"Error:", "Feature extraction failed">>

\* C8: whenever process_3d_file returns after both subprocesses exited 0,
\* the job's features directory does not exist and the return has changed
\* nothing under the jobs root.
C8_FeaturesGoneOnReturn ==
    [][\A j \in Jobs :
          (pc[j] # "returned" /\ pc'[j] = "returned" /\ stage1'[j] = "ok" /\ stage2'[j] = "ok")
              => (~features'[job_id[j]].exists /\ dirs' = dirs)]_vars

\* C9: a turn of the sweep removes the directory only if its age, at the
\* start of the pass, exceeds the expiry, and removes it whenever the age
\* does and no call raises; so one second inside the window survives and
\* one second past it is removed; the pass ends only when every listed
\* entry had its turn.
C9_SweepBoundary ==
    \A j \in Jobs :
        LET v == sweeps[j].last
            age == sweeps[j].started - v.mtime
        IN  /\ v.err # "skipped" =>
                /\ ~v.after => age > JOB_EXPIRY_HOURS * 3600
                /\ (v.err = "none" /\ age > JOB_EXPIRY_HOURS * 3600) => ~v.after
                /\ v.mtime = sweeps[j].started - JOB_EXPIRY_HOURS * 3600 + 1 => v.after
                /\ (v.err = "none" /\ v.mtime = sweeps[j].started - JOB_EXPIRY_HOURS * 3600 - 1)
                        => ~v.after
            /\ pc[j] # "sweeping" => listing[j] = {}

C9_Witness ==
    \E j, k \in Jobs :
        /\ sweeps[j].last.err = "none" /\ sweeps[j].last.after
        /\ sweeps[j].last.mtime = sweeps[j].started - JOB_EXPIRY_HOURS * 3600 + 1
        /\ sweeps[k].last.err = "none" /\ ~sweeps[k].last.after
        /\ sweeps[k].last.mtime = sweeps[k].started - JOB_EXPIRY_HOURS * 3600 - 1

\* C10: a turn of job a's sweep never removes the workspace of another job b
\* that is running and made its directories within the last second (no time
\* has passed since the server started).
C10_FreshWorkspaceSurvivesSweep ==
    [][\A a, b \in Jobs :
          (a # b /\ pc[a] = "sweeping" /\ listing'[a] # listing[a] /\ ticks = 0
                 /\ HasWorkspace(b) /\ dirs[job_id[b]].exists)
              => dirs'[job_id[b]].exists]_vars

SweepDirs ==
    [JobIds -> {NoDir, OldDir(StartTime), OldDir(StartTime - ExpirySeconds + 1),
                OldDir(StartTime - ExpirySeconds), OldDir(StartTime - ExpirySeconds - 1)}]

\* The clock advances by one second between or during the calls.
SweepTickSteps == {1}

\* Every caller is about to call cleanup_old_jobs(jobs_dir).
InitSweep ==
    /\ now = StartTime
    /\ ticks = 0
    /\ faults = 0
    /\ dirs \in SweepDirs
    /\ features = [i \in JobIds |-> NoFeatures]
    /\ pc = [j \in Jobs |-> "sweep"]
    /\ file = [j \in Jobs |-> NoUpload]
    /\ job_id = [j \in Jobs |-> NoId]
    /\ cutoff = [j \in Jobs |-> NoTime]
    /\ listing = [j \in Jobs |-> {}]
    /\ removed = [j \in Jobs |-> 0]
    /\ stage1 = [j \in Jobs |-> "none"]
    /\ stage2 = [j \in Jobs |-> "none"]
    /\ inference_output = [j \in Jobs |-> {}]
    /\ pca_file = [j \in Jobs |-> None]
    /\ mesh_files = [j \in Jobs |-> <<>>]
    /\ mesh_list = [j \in Jobs |-> <<>>]
    /\ log_output = [j \in Jobs |-> <<>>]
    /\ ret = [j \in Jobs |-> NoResult]
    /\ steps = [j \in Jobs |-> <<>>]
    /\ sweeps = [j \in Jobs |-> [started |-> NoTime, last |-> NoVisit]]

\* Call j is made once the calls before it have returned.
SweepCall(j) ==
    /\ \A i \in Jobs : i < j => pc[i] = After("sweep")
    /\ SweepBegin(j)

NextSweep ==
    \/ \E d \in SweepTickSteps : Tick(d)
    \/ \E j \in Jobs : SweepCall(j)
    \/ \E j \in Jobs, d \in JobIds, err \in {"none", "stat", "rmtree"} : SweepVisit(j, d, err)

SweepSpec == InitSweep /\ [][NextSweep]_vars

CheckExists(f) == f.path # "" /\ f.exists
CheckExtension(f) ==
    f.suffix \in {".obj", ".OBJ", ".glb", ".off", ".ply", ".PLY"}
CheckSize(f) == f.size <= 100 * 1024 * 1024
CheckName(f) == f.stem \notin {"car", "Car", "CAR", "complex_car", "Complex_Car"}
PassesAllChecks(f) == CheckExists(f) /\ CheckExtension(f) /\ CheckSize(f) /\ CheckName(f)

\* C13: the step that validates an upload failing one of the checks returns
\* a status beginning with "Error" and an empty artifact list, the reason
\* being the unsupported format when the extension of an existing file is
\* not allowed; the job has drawn no id, made no directory, started no
\* sweep and no subprocess, changed nothing on disk, and does nothing more.
C13_RejectedAllocatesNothing ==
    [][\A j \in Jobs :
          /\ (pc[j] = "validate" /\ pc'[j] # "validate" /\ ~PassesAllChecks(file'[j])) =>
                /\ pc'[j] = "returned"
                /\ Head(ret'[j].status) = "Error:"
                /\ ret'[j].mesh_files = <<>>
                /\ (CheckExists(file'[j]) /\ ~CheckExtension(file'[j]))
                      => ret'[j].status = <<"Error:", "Unsupported format">>
                /\ steps'[j] = <<"validate">>
                /\ job_id'[j] = NoId
                /\ sweeps'[j].started = NoTime
                /\ stage1'[j] = "none" /\ stage2'[j] = "none"
                /\ dirs' = dirs /\ features' = features
          /\ (pc[j] = "returned" /\ steps[j] = <<"validate">>) =>
                (pc'[j] = "returned" /\ steps'[j] = steps[j] /\ job_id'[j] = NoId)]_vars

\* One job was rejected for its extension, another for its reserved name.
C13_Witness ==
    \E j, k \in Jobs :
        /\ pc[j] = "returned" /\ file[j].suffix = ".txt"
        /\ ret[j].status = <<"Error:", "Unsupported format">> /\ job_id[j] = NoId
        /\ pc[k] = "returned" /\ file[k].stem = "Car"
        /\ Head(ret[k].status) = "Error:" /\ job_id[k] = NoId

\* ------------------------------------------------- validate_file on its own
\* The arguments validate_file is applied to: nothing, or a path that may
\* exist, with base names and extensions in several letter cases and sizes
\* below, at and one byte above the ceiling.
ValidateInputs ==
    {NoUpload} \cup
    { Upload("upload", e, st, su, sz) :
        e \in BOOLEAN,
        st \in {"mesh", "car", "Car", "CAR", "complex_car", "Complex_Car"},
        su \in {".obj", ".OBJ", ".glb", ".off", ".ply", ".PLY", ".txt", ""},
        sz \in {1000, MaxSizeMB * BytesPerMB, MaxSizeMB * BytesPerMB + 1} }

\* One handler validates one argument.
NextValidate == \E j \in {1}, f \in ValidateInputs : Validate(j, f)

ValidateSpec == Init /\ [][NextValidate]_vars

\* The reason of the first check that fails, in the order existence,
\* extension, size, reserved name.
FirstFailure(f) ==
    IF ~CheckExists(f) THEN (IF f.path = "" THEN "No file uploaded" ELSE "File does not exist")
    ELSE IF ~CheckExtension(f) THEN "Unsupported format"
    ELSE IF ~CheckSize(f) THEN "File too large"
    ELSE "The filename is reserved"

\* C14: an upload is accepted exactly when it passes the four checks
\* (existence, extension, size of at most 100 MiB, base name not reserved);
\* a rejected one is rejected with the reason of the first check that fails
\* in this order; a reserved base name is rejected whatever the extension.
C14_ValidateOrder ==
    \A j \in Jobs :
        steps[j] # <<>> =>
            /\ (pc[j] = "mkdir") = PassesAllChecks(file[j])
            /\ ~PassesAllChecks(file[j]) =>
                  (pc[j] = "returned" /\ ret[j].status = <<"Error:", FirstFailure(file[j])>>)
            /\ ~CheckName(file[j]) => (pc[j] = "returned" /\ Head(ret[j].status) = "Error:")

\* An existing file failing the extension, size and name checks at once was
\* rejected for its extension.
C14_Witness ==
    \E j \in Jobs :
        /\ steps[j] # <<>> /\ CheckExists(file[j])
        /\ ~CheckExtension(file[j]) /\ ~CheckSize(file[j]) /\ ~CheckName(file[j])
        /\ ret[j].status = <<"Error:", "Unsupported format">>

\* The job's output/ply is missing or holds no .ply and no .obj file.
NoMatchingFile(j) ==
    LET d == dirs[job_id[j]] IN
    ~d.exists \/ ~d.ply \/ \A f \in d.files : f.ext \notin {".ply", ".obj"}

\* C15: when both subprocesses exited 0 and the harvest finds output/ply
\* missing or without a matching file, the job returns a status beginning
\* with "Warning" (not "Error") and an empty artifact list.
C15_NoOutputIsWarning ==
    [][\A j \in Jobs :
          (/\ pc[j] = "harvest" /\ pc'[j] # "harvest"
           /\ stage1[j] = "ok" /\ stage2[j] = "ok" /\ NoMatchingFile(j))
              => /\ pc'[j] = "returned"
                 /\ Head(ret'[j].status) = "Warning:"
                 /\ Head(ret'[j].status) # "Error:"
                 /\ ret'[j].mesh_files = <<>>]_vars

\* A job returned the warning from an output/ply holding only a file that
\* is no mesh; another from a workspace without output/ply.
C15_Witness ==
    \E j, k \in Jobs :
        /\ pc[j] = "returned" /\ stage2[j] = "ok" /\ Head(ret[j].status) = "Warning:"
        /\ dirs[job_id[j]].ply /\ dirs[job_id[j]].files # {}
        /\ pc[k] = "returned" /\ stage2[k] = "ok" /\ Head(ret[k].status) = "Warning:"
        /\ dirs[job_id[k]].exists /\ ~dirs[job_id[k]].ply

\* ------------------------------------------ harvest and on_process on their own
\* Files stage 2 can have left in output/ply: part counts of one and two
\* digits, two views and two formats with the same part count, a name whose
\* last field is no number, a file that is no mesh.
HarvestFiles ==
    { MeshFile("mesh", "0", "2", ".ply"), MeshFile("mesh", "1", "2", ".ply"),
      MeshFile("mesh", "0", "10", ".ply"), MeshFile("mesh", "0", "final", ".ply"),
      MeshFile("mesh", "0", "2", ".obj"), MeshFile("mesh", "0", "3", ".obj"),
      OutFile(<<"clustering">>, ".log") }

\* How many files output/ply holds at most.
MaxFiles == 4

\* Job 1 has run both subprocesses with exit status 0 in an empty jobs root
\* and is about to collect its results; the other jobs have not started.
InitHarvest ==
    /\ now = StartTime
    /\ ticks = 0
    /\ faults = 0
    /\ \E F \in SUBSET HarvestFiles, p \in BOOLEAN :
          /\ Cardinality(F) <= MaxFiles
          /\ ~p => F = {}
          /\ dirs = [i \in JobIds |->
                       IF i = 1 THEN [exists |-> TRUE, mtime |-> StartTime, input |-> TRUE,
                                      ply |-> p, files |-> F]
                       ELSE NoDir]
    /\ features = [i \in JobIds |-> IF i = 1 THEN Features(StartTime) ELSE NoFeatures]
    /\ pc = [j \in Jobs |-> IF j = 1 THEN "harvest" ELSE "validate"]
    /\ file = [j \in Jobs |-> IF j = 1 THEN Upload("mesh.obj", TRUE, "mesh", ".obj", 1000)
                              ELSE NoUpload]
    /\ job_id = [j \in Jobs |-> IF j = 1 THEN 1 ELSE NoId]
    /\ cutoff = [j \in Jobs |-> IF j = 1 THEN Cutoff(StartTime, JOB_EXPIRY_HOURS) ELSE NoTime]
    /\ listing = [j \in Jobs |-> {}]
    /\ removed = [j \in Jobs |-> 0]
    /\ stage1 = [j \in Jobs |-> IF j = 1 THEN "ok" ELSE "none"]
    /\ stage2 = [j \in Jobs |-> IF j = 1 THEN "ok" ELSE "none"]
    /\ inference_output = [j \in Jobs |-> {}]
    /\ pca_file = [j \in Jobs |-> IF j = 1 THEN PcaPath(1) ELSE None]
    /\ mesh_files = [j \in Jobs |-> <<>>]
    /\ mesh_list = [j \in Jobs |-> <<>>]
    /\ log_output = [j \in Jobs |->
          IF j = 1 THEN <<"File validated successfully", "Created job directory",
                          "Copied input file", "GPU memory cleared",
                          "Feature extraction completed", "Clustering completed">>
          ELSE <<>>]
    /\ ret = [j \in Jobs |-> NoResult]
    /\ steps = [j \in Jobs |->
          IF j = 1 THEN <<"validate", "mkdir", "copy", "sweep", "stage1", "stage2">>
          ELSE <<>>]
    /\ sweeps = [j \in Jobs |-> [started |-> IF j = 1 THEN StartTime ELSE NoTime,
                                 last |-> IF j = 1
                                          THEN [mtime |-> StartTime, err |-> "none",
                                                after |-> TRUE]
                                          ELSE NoVisit]]

NextHarvest ==
    \/ \E j \in Jobs : Collect(j)
    \/ \E j \in Jobs, rm_ok \in BOOLEAN : Cleanup(j, rm_ok)

HarvestSpec == InitHarvest /\ [][NextHarvest]_vars

\* The part count the specification reads off a file name: the number in
\* its last underscore-separated field, 0 when that is no number.
PartCount(f) ==
    CASE f.stem = <<"mesh", "0", "2">> -> 2
      [] f.stem = <<"mesh", "1", "2">> -> 2
      [] f.stem = <<"mesh", "0", "3">> -> 3
      [] f.stem = <<"mesh", "0", "10">> -> 10
      [] OTHER -> 0

\* Where x stands in a list without repetitions.
IndexOf(seq, x) == CHOOSE i \in 1..Len(seq) : seq[i] = x

\* C16: the harvested list holds the globbed files, each once, in
\* non-decreasing order of part count; files of equal part count stand in
\* the order in which the globs delivered them; a file whose last field is
\* no number has key 0, so it stands before every numbered file, and the
\* harvest does not raise.
C16_StableSortByPartCount ==
    \A j \in Jobs :
        pc[j] \in {"cleanup", "returned"} =>
            LET m == mesh_files[j]
                g == mesh_list[j]
            IN  /\ Len(m) = Len(g) /\ Range(m) = Range(g)
                /\ \A i, k \in 1..Len(m) :
                      i < k =>
                        /\ PartCount(m[i]) <= PartCount(m[k])
                        /\ PartCount(m[i]) = PartCount(m[k])
                              => IndexOf(g, m[i]) < IndexOf(g, m[k])

\* A harvest that had to move a file forward (10 parts globbed before 2
\* parts), kept two files of equal part count in their globbed order and put
\* an unnumbered file first.
C16_Witness ==
    \E j \in Jobs :
        /\ pc[j] = "cleanup"
        /\ mesh_list[j] # mesh_files[j]
        /\ Len(mesh_files[j]) = 4
        /\ PartCount(mesh_files[j][1]) = 0
        /\ PartCount(mesh_files[j][2]) = 2 /\ PartCount(mesh_files[j][3]) = 2
        /\ mesh_files[j][2].ext = ".ply" /\ mesh_files[j][3].ext = ".ply"
        /\ IndexOf(mesh_list[j], mesh_files[j][2]) > IndexOf(mesh_list[j], mesh_files[j][4])

\* ------------------------------------------------------------------ on_process
\* Lines 500-508: cluster_count is the last field of the stem, as text; the
\* label is f"{cluster_count} parts{format_suffix}", kept as its parts.
Label(mesh_path) ==
    LET f == mesh_path[3] IN
    <<f.stem[Len(f.stem)], " parts">>
        \o (IF Lower(f.ext) = ".obj" THEN <<" (UV)">> ELSE <<>>)

\* Lines 497-511: dropdown_choices.append(label) for each path in turn.
dropdown_choices(paths) == [i \in 1..Len(paths) |-> Label(paths[i])]

\* Lines 498-511: files_mapping[label] = mesh_path for each path in turn, a
\* later path replacing an earlier one under the same label.
files_mapping(paths) ==
    LET labels == dropdown_choices(paths) IN
    [l \in Range(labels) |->
        paths[CHOOSE i \in 1..Len(paths) :
                 labels[i] = l /\ \A k \in (i + 1)..Len(paths) : labels[k] # l]]

\* Lines 482-526: what on_process returns for the tuple r of
\* process_3d_file: status, the dropdown (choices, value), the model shown,
\* the PCA file, the log and the mapping kept in result_files_state.
on_process(r) ==
    LET choices == dropdown_choices(r.mesh_files)
        mapping == files_mapping(r.mesh_files)
        first_choice == IF choices # <<>> THEN choices[1] ELSE None
        first_model == IF first_choice # None THEN mapping[first_choice] ELSE None
    IN  [status |-> r.status, choices |-> choices, value |-> first_choice,
         model |-> first_model, pca_file |-> r.pca_file, log |-> r.log,
         files_mapping |-> mapping]

\* Two paths name files of the same part count in different formats.
SameCountOtherFormat(p, q) == PartCount(p[3]) = PartCount(q[3]) /\ p[3].ext # q[3].ext

\* C17: neither the list process_3d_file returns nor the mapping on_process
\* builds from it holds two artifacts of the same part count in different
\* formats (the .ply is dropped in favour of the .obj).
C17_OnlyUVSurfaced ==
    \A j \in Jobs :
        pc[j] = "returned" =>
            LET paths == ret[j].mesh_files
                shown == on_process(ret[j]).files_mapping
            IN  /\ \A i, k \in 1..Len(paths) : ~SameCountOtherFormat(paths[i], paths[k])
                /\ \A l, n \in DOMAIN shown : ~SameCountOtherFormat(shown[l], shown[n])

\* C18: when process_3d_file returned artifacts, the dropdown's default
\* value is the label of the first of them and the model shown is the first
\* artifact's path; when it returned none, both are None.
C18_FirstIsDefault ==
    \A j \in Jobs :
        pc[j] = "returned" =>
            LET paths == ret[j].mesh_files
                ui == on_process(ret[j])
            IN  IF paths # <<>>
                THEN ui.value = Label(paths[1]) /\ ui.model = paths[1]
                ELSE ui.value = None /\ ui.model = None

\* C19: when process_3d_file returns, every artifact path it returns names a
\* file that is in the job's output/ply, and the PCA path it returns, if
\* not None, names a file that is in the features directory.
C19_ReturnedPathsExist ==
    [][\A j \in Jobs :
          (pc[j] # "returned" /\ pc'[j] = "returned") =>
              /\ \A i \in 1..Len(ret'[j].mesh_files) :
                    LET p == ret'[j].mesh_files[i] IN
                    dirs'[p[2]].exists /\ dirs'[p[2]].ply /\ p[3] \in dirs'[p[2]].files
              /\ ret'[j].pca_file # None => features'[ret'[j].pca_file[2]].exists]_vars

\* ------------------------------------------------ jobs submitted one by one
\* Job j is submitted once the jobs before it have returned or raised.
Serial(j) == \A i \in Jobs : i < j => Terminated(i)

NextSerial ==
    \/ \E d \in TickSteps : Tick(d)
    \/ \E j \in Jobs, f \in Uploads : Serial(j) /\ Validate(j, f)
    \/ \E j \in Jobs, id \in JobIds, ok \in BOOLEAN : Serial(j) /\ CreateWorkspace(j, id, ok)
    \/ \E j \in Jobs, ok \in BOOLEAN : Serial(j) /\ CopyInput(j, ok)
    \/ \E j \in Jobs : Serial(j) /\ SweepBegin(j)
    \/ \E j \in Jobs, d \in JobIds, err \in {"none", "stat", "rmtree"} :
            Serial(j) /\ SweepVisit(j, d, err)
    \/ \E j \in Jobs, launched \in BOOLEAN : Serial(j) /\ SpawnStage1(j, launched)
    \/ \E j \in Jobs, rc \in ExitCodes, out \in SUBSET Signatures :
            Serial(j) /\ Stage1Exit(j, rc, out)
    \/ \E j \in Jobs, launched \in BOOLEAN : Serial(j) /\ SpawnStage2(j, launched)
    \/ \E j \in Jobs, rc \in ExitCodes, o \in Stage2Outputs : Serial(j) /\ Stage2Exit(j, rc, o)
    \/ \E j \in Jobs : Serial(j) /\ Collect(j)
    \/ \E j \in Jobs, rm_ok \in BOOLEAN : Serial(j) /\ Cleanup(j, rm_ok)

SerialSpec == Init /\ [][NextSerial]_vars

\* The job's sweep pass has run to its end.
SweepComplete(k) ==
    sweeps[k].started # NoTime /\ pc[k] \notin {"sweep", "sweeping"}

\* C20: with jobs submitted one after the other, the features directory an
\* earlier job left behind does not outlive the sweep of a later job that
\* starts when the directory is older than the expiry: once that pass is
\* complete, and no operating-system call has failed, the directory is gone
\* (if the earlier job's own cleanup had not removed it before).
C20_FeaturesReclaimed ==
    \A k \in Jobs, i \in JobIds :
        (SweepComplete(k) /\ faults = 0 /\ features[i].exists)
            => ~(sweeps[k].started - features[i].mtime > JOB_EXPIRY_HOURS * 3600)

\* ------------------------------------------- on_select_result, on_download
\* Path(path).exists() for a path <jobs_dir>/<id>/output/ply/<file>.
PathExists(path) ==
    dirs[path[2]].exists /\ dirs[path[2]].ply /\ path[3] \in dirs[path[2]].files

\* Lines 528-532: the path kept under the selected label, or None.
on_select_result(selected_label, mapping) ==
    IF selected_label # None /\ DOMAIN mapping # {} /\ selected_label \in DOMAIN mapping
    THEN mapping[selected_label]
    ELSE None

\* Lines 534-540: the path offered for download (gr.File(value=path)), or
\* None for the hidden gr.File.
on_download(selected_label, mapping) ==
    IF selected_label # None /\ DOMAIN mapping # {} /\ selected_label \in DOMAIN mapping
    THEN (IF PathExists(mapping[selected_label]) THEN mapping[selected_label] ELSE None)
    ELSE None

\* C21: the mapping on_process builds has as many entries as
\* process_3d_file returned artifacts, and for every returned artifact the
\* dropdown has a label for which on_select_result and on_download return
\* that artifact's path.
C21_EveryArtifactSelectable ==
    \A j \in Jobs :
        pc[j] = "returned" =>
            LET paths == ret[j].mesh_files
                ui == on_process(ret[j])
            IN  /\ Cardinality(DOMAIN ui.files_mapping) = Len(paths)
                /\ \A i \in 1..Len(paths) :
                      \E l \in Range(ui.choices) :
                          /\ on_select_result(l, ui.files_mapping) = paths[i]
                          /\ on_download(l, ui.files_mapping) = paths[i]

====
